---- MODULE Spec2Model ----
(***************************************************************************)
(* Hit-graph construction of gnn/graph.py.                                 *)
(*                                                                         *)
(* Numbers: coordinates and thresholds are integers.  Angles are counted   *)
(* in grid units of pi/PiUnits, so that np.pi is PiUnits and 2*np.pi is    *)
(* 2*PiUnits.  Quotients are kept as exact fractions [num, den]; a zero    *)
(* denominator stands for the non-finite floats (inf, nan) that the        *)
(* division yields, and every comparison against it is false.              *)
(* A DataFrame is the sequence of its rows; a row carries its label in the *)
(* field `index`.  Labels are unique within a table.                       *)
(***************************************************************************)
EXTENDS Integers, Sequences, FiniteSets, TLC

----------------------------------------------------------------------------
(* Bounds of the model *)

\* grid units that make up the angle pi
PiUnits == 2
\* radii are 1..MaxR
MaxR == 2
\* z coordinates are 0 and MaxZ
MaxZ == 1
\* event ids are 1..MaxEvt
MaxEvt == 2
\* rows of a hits table handed to construct_segments directly
MaxHits == 2
\* entries of the layer-pair list
MaxPairs == 2
\* thresholds are 1..MaxThr
MaxThr == 2
\* length of the Series handed to calc_dphi
MaxSeries == 2
\* nodes and edges of a Graph handed to make_sparse_graph
MaxNodes == 3
MaxEdges == 2
\* rows of a hits table handed to construct_graphs
MaxTableRows == 3
\* barcodes are 1..MaxParticles
MaxParticles == 2
\* filenames handed to save_graphs
MaxFiles == 2

Layers == {7, 8, 9}
LayerPairs == {<<7, 7>>, <<7, 8>>, <<9, 7>>}

SeqsUpTo(S, n) == UNION {[1..k -> S] : k \in 0..n}

----------------------------------------------------------------------------
(* Arithmetic *)

Abs(x) == IF x < 0 THEN -x ELSE x

Quot_zero_guarded(a, b) == [num |-> a, den |-> IF b = 0 THEN 1 ELSE b]

\* a / b in float arithmetic
Quot(a, b) == [num |-> a, den |-> b]

\* a - q for an integer a and a quotient q
IntMinusQuot(a, q) == [num |-> a * q.den - q.num, den |-> q.den]

\* q.abs() < bound
AbsLess(q, bound) == q.den # 0 /\ Abs(q.num) < bound * Abs(q.den)

----------------------------------------------------------------------------
(* calc_dphi *)

calc_dphi_nowrap_low(phi1, phi2) ==
    [i \in 1..Len(phi1) |->
        LET d0 == phi2[i] - phi1[i]
        IN  IF d0 > PiUnits THEN d0 - 2 * PiUnits ELSE d0]

calc_dphi(phi1, phi2) ==
    [i \in 1..Len(phi1) |->
        LET d0 == phi2[i] - phi1[i]
            d1 == IF d0 > PiUnits THEN d0 - 2 * PiUnits ELSE d0
        IN  IF d1 < -PiUnits THEN d1 + 2 * PiUnits ELSE d1]

----------------------------------------------------------------------------
(* select_segments *)

\* hits1[keys].reset_index().merge(hits2[keys].reset_index(), on='evtid'):
\* every pair of rows with equal evtid, left rows outermost
merge(hits1, hits2) ==
    LET n2 == Len(hits2)
        all == [k \in 1..(Len(hits1) * n2) |->
                   <<hits1[((k - 1) \div n2) + 1], hits2[((k - 1) % n2) + 1]>>]
    IN  SelectSeq(all, LAMBDA p : p[1].evtid = p[2].evtid)

select_segments_z0_swapped(hits1, hits2, phi_slope_max, z0_max) ==
    LET hit_pairs == merge(hits1, hits2)
        n == Len(hit_pairs)
        dphi == calc_dphi([k \in 1..n |-> hit_pairs[k][1].phi],
                          [k \in 1..n |-> hit_pairs[k][2].phi])
        dz == [k \in 1..n |-> hit_pairs[k][2].z - hit_pairs[k][1].z]
        dr == [k \in 1..n |-> hit_pairs[k][2].r - hit_pairs[k][1].r]
        phi_slope == [k \in 1..n |-> Quot(dphi[k], dr[k])]
        z0 == [k \in 1..n |->
                  IntMinusQuot(hit_pairs[k][2].z, Quot(hit_pairs[k][1].r * dz[k], dr[k]))]
        good == {k \in 1..n : AbsLess(phi_slope[k], phi_slope_max) /\ AbsLess(z0[k], z0_max)}
        ks == SelectSeq([k \in 1..n |-> k], LAMBDA k : k \in good)
    IN  [k \in 1..Len(ks) |-> <<hit_pairs[ks[k]][1].index, hit_pairs[ks[k]][2].index>>]

select_segments(hits1, hits2, phi_slope_max, z0_max) ==
    LET hit_pairs == merge(hits1, hits2)
        n == Len(hit_pairs)
        dphi == calc_dphi([k \in 1..n |-> hit_pairs[k][1].phi],
                          [k \in 1..n |-> hit_pairs[k][2].phi])
        dz == [k \in 1..n |-> hit_pairs[k][2].z - hit_pairs[k][1].z]
        dr == [k \in 1..n |-> hit_pairs[k][2].r - hit_pairs[k][1].r]
        phi_slope == [k \in 1..n |-> Quot(dphi[k], dr[k])]
        z0 == [k \in 1..n |->
                  IntMinusQuot(hit_pairs[k][1].z, Quot(hit_pairs[k][1].r * dz[k], dr[k]))]
        good == {k \in 1..n : AbsLess(phi_slope[k], phi_slope_max) /\ AbsLess(z0[k], z0_max)}
        ks == SelectSeq([k \in 1..n |-> k], LAMBDA k : k \in good)
    IN  [k \in 1..Len(ks) |-> <<hit_pairs[ks[k]][1].index, hit_pairs[ks[k]][2].index>>]

----------------------------------------------------------------------------
(* construct_segments *)

\* layer_groups.get_group(layer): the rows on the layer, in table order
get_group(hits, layer) == SelectSeq(hits, LAMBDA h : h.layer = layer)

\* get_group raises KeyError for a layer without rows
HasGroup(hits, layer) == \E i \in 1..Len(hits) : hits[i].layer = layer

z0_max_for_layer1_only(layer1, layer2, z0_max_inner, z0_max_outer) ==
    IF layer1 >= 8 THEN z0_max_outer ELSE z0_max_inner

z0_max_for(layer1, layer2, z0_max_inner, z0_max_outer) ==
    IF (layer1 >= 8) \/ (layer2 >= 8) THEN z0_max_outer ELSE z0_max_inner

\* pd.concat of a list of frames
RECURSIVE concat(_)
concat(frames) ==
    IF frames = <<>> THEN <<>> ELSE frames[1] \o concat(Tail(frames))

----------------------------------------------------------------------------
(* Tensors of construct_graph *)

\* feature_names = ['r', 'phi', 'z']
feature_names(h) == <<h.r, h.phi, h.z>>

\* feature_scale = np.array([1000., np.pi, 1000.])
feature_scale == <<1000, PiUnits, 1000>>

node_features_unscaled(hits) ==
    [i \in 1..Len(hits) |-> [k \in 1..3 |-> Quot(feature_names(hits[i])[k], 1)]]

\* X = hits[feature_names].values / feature_scale: one row per row of hits
node_features(hits) ==
    [i \in 1..Len(hits) |->
        [k \in 1..3 |-> Quot(feature_names(hits[i])[k], feature_scale[k])]]

\* np.arange(n)
arange(n) == [k \in 1..n |-> k - 1]

\* np.zeros((n, m)): a matrix is its shape and its entries, indexed from 0
zeros(n, m) ==
    [rows |-> n, cols |-> m, at |-> [rc \in (0..(n - 1)) \X (0..(m - 1)) |-> 0]]

\* M[rs, cs] = 1 with two index arrays of one length
set_ones(M, rs, cs) ==
    [M EXCEPT !.at = [rc \in DOMAIN M.at |->
                         IF \E k \in 1..Len(rs) : rs[k] = rc[1] /\ cs[k] = rc[2]
                         THEN 1 ELSE M.at[rc]]]

\* M.nonzero(): row and column indices of the nonzero entries, in row-major order
nonzero(M) ==
    LET cells == [k \in 1..(M.rows * M.cols) |->
                     <<(k - 1) \div M.cols, (k - 1) % M.cols>>]
        nz == SelectSeq(cells, LAMBDA rc : M.at[rc] # 0)
    IN  <<[k \in 1..Len(nz) |-> nz[k][1]], [k \in 1..Len(nz) |-> nz[k][2]]>>

make_sparse_graph_transposed(X, Ri, Ro, y) ==
    LET i == nonzero(Ri)
        o == nonzero(Ro)
    IN  [X |-> X, Ri_rows |-> i[2], Ri_cols |-> i[1],
         Ro_rows |-> o[2], Ro_cols |-> o[1], y |-> y]

make_sparse_graph(X, Ri, Ro, y) ==
    LET i == nonzero(Ri)
        o == nonzero(Ro)
    IN  [X |-> X, Ri_rows |-> i[1], Ri_cols |-> i[2],
         Ro_rows |-> o[1], Ro_cols |-> o[2], y |-> y]

graph_from_sparse_Ro_from_Ri(sparse_graph) ==
    LET n_nodes == Len(sparse_graph.X)
        n_edges == Len(sparse_graph.Ri_rows)
    IN  [X |-> sparse_graph.X,
         Ri |-> set_ones(zeros(n_nodes, n_edges), sparse_graph.Ri_rows, sparse_graph.Ri_cols),
         Ro |-> set_ones(zeros(n_nodes, n_edges), sparse_graph.Ri_rows, sparse_graph.Ro_cols),
         y |-> sparse_graph.y]

graph_from_sparse(sparse_graph) ==
    LET n_nodes == Len(sparse_graph.X)
        n_edges == Len(sparse_graph.Ri_rows)
    IN  [X |-> sparse_graph.X,
         Ri |-> set_ones(zeros(n_nodes, n_edges), sparse_graph.Ri_rows, sparse_graph.Ri_cols),
         Ro |-> set_ones(zeros(n_nodes, n_edges), sparse_graph.Ro_rows, sparse_graph.Ro_cols),
         y |-> sparse_graph.y]

hit_positions_by_label(hits, labels) == labels

\* hit_idx = pd.Series(np.arange(n_hits), index=hits.index); hit_idx.loc[labels].values
hit_positions(hits, labels) ==
    [e \in 1..Len(labels) |->
        CHOOSE i \in 0..(Len(hits) - 1) : hits[i + 1].index = labels[e]]

\* hits.barcode.loc[labels].values
barcodes(hits, labels) ==
    [e \in 1..Len(labels) |->
        hits[CHOOSE i \in 1..Len(hits) : hits[i].index = labels[e]].barcode]

edge_labels_start_only(hits, segments) ==
    LET pid1 == barcodes(hits, [e \in 1..Len(segments) |-> segments[e][1]])
    IN  [e \in 1..Len(segments) |-> IF pid1[e] = pid1[e] THEN 1 ELSE 0]

\* y[:] = (pid1 == pid2)
edge_labels(hits, segments) ==
    LET pid1 == barcodes(hits, [e \in 1..Len(segments) |-> segments[e][1]])
        pid2 == barcodes(hits, [e \in 1..Len(segments) |-> segments[e][2]])
    IN  [e \in 1..Len(segments) |-> IF pid1[e] = pid2[e] THEN 1 ELSE 0]

\* construct_graph after its call of construct_segments
construct_graph(hits, segments) ==
    LET n_hits == Len(hits)
        n_edges == Len(segments)
        X == node_features(hits)
        seg_start == hit_positions(hits, [e \in 1..n_edges |-> segments[e][1]])
        seg_end == hit_positions(hits, [e \in 1..n_edges |-> segments[e][2]])
        Ri == set_ones(zeros(n_hits, n_edges), seg_end, arange(n_edges))
        Ro == set_ones(zeros(n_hits, n_edges), seg_start, arange(n_edges))
        y == edge_labels(hits, segments)
    IN  make_sparse_graph(X, Ri, Ro, y)

----------------------------------------------------------------------------
(* construct_graphs *)

\* hits.evtid.unique(): the event ids in order of first appearance
unique_evtids(hits) ==
    LET first == SelectSeq([i \in 1..Len(hits) |-> i],
                           LAMBDA i : \A j \in 1..(i - 1) : hits[j].evtid # hits[i].evtid)
    IN  [k \in 1..Len(first) |-> hits[first[k]].evtid]

\* max_events is <<>> for None and <<n>> for a count n >= 0
selected_evtids_all(hits, max_events) == unique_evtids(hits)

\* evtids[:max_events] unless max_events is None
selected_evtids(hits, max_events) ==
    LET evtids == unique_evtids(hits)
    IN  IF max_events # <<>>
        THEN SubSeq(evtids, 1, IF max_events[1] < Len(evtids) THEN max_events[1]
                                                              ELSE Len(evtids))
        ELSE evtids

\* evt_hit_groups.get_group(evtid): the rows of the event, labels kept
get_event(hits, evtid) == SelectSeq(hits, LAMBDA h : h.evtid = evtid)

----------------------------------------------------------------------------
(* NPZ archives *)

\* a filename is the sequence of its stem and suffixes; np.savez appends ".npz"
\* to a name that does not end with it
savez_target(filename) ==
    IF filename # <<>> /\ filename[Len(filename)] = ".npz"
    THEN filename
    ELSE Append(filename, ".npz")

\* graph._asdict(): the arrays of the archive by name
asdict(graph) == {<<k, graph[k]>> : k \in DOMAIN graph}

\* graph_type(**dict(f.items()))
from_items(items) ==
    [k \in {it[1] : it \in items} |-> (CHOOSE it \in items : it[1] = k)[2]]

\* the files are a function of the path: <<>> where no file is, <<archive>> otherwise
save_graph(fs, graph, filename) ==
    [fs EXCEPT ![savez_target(filename)] = <<asdict(graph)>>]

RECURSIVE save_graphs_from(_, _, _, _)
save_graphs_from(fs, graphs, filenames, k) ==
    IF k > Len(graphs) \/ k > Len(filenames)
    THEN fs
    ELSE save_graphs_from(save_graph(fs, graphs[k], filenames[k]), graphs, filenames, k + 1)

\* for graph, filename in zip(graphs, filenames): save_graph(graph, filename)
save_graphs(fs, graphs, filenames) == save_graphs_from(fs, graphs, filenames, 1)

\* np.load raises for a path without a file
can_load(fs, filename) == fs[filename] # <<>>

load_graph(fs, filename) == from_items(fs[filename][1])

load_graphs(fs, filenames) ==
    [k \in 1..Len(filenames) |-> load_graph(fs, filenames[k])]

----------------------------------------------------------------------------
(* State *)

VARIABLES
    pc,             \* position of the running call
    table,          \* construct_graphs: the hits of all events
    max_events,     \* construct_graphs: <<>> for None, <<n>> for a count
    evtids,         \* construct_graphs: the event ids to loop over
    ei,             \* construct_graphs: position of the loop in evtids
    graphs,         \* construct_graphs: the list `graphs`
    hits,           \* the hits argument of construct_graph and construct_segments
    layer_pairs, phi_slope_max, z0_max_inner, z0_max_outer,
    lp,             \* construct_segments: position of the loop in layer_pairs
    seg_list,       \* construct_segments: the list `segments`
    z0_max,         \* construct_segments: the local z0_max
    segments,       \* what construct_segments returned
    files,          \* the NPZ archives on disk, by path
    filenames,      \* the filenames handed to save_graphs and load_graphs
    loaded,         \* what load_graphs returned
    phi1, phi2,     \* the arguments of calc_dphi
    dphi,           \* what calc_dphi returned
    dense,          \* a Graph (X, Ri, Ro, y)
    sparse,         \* make_sparse_graph of it
    back            \* graph_from_sparse of that

argVars == <<layer_pairs, phi_slope_max, z0_max_inner, z0_max_outer>>
segVars == <<hits, lp, seg_list, z0_max, segments>>
graphsVars == <<table, max_events, evtids, ei, graphs>>
fileVars == <<files, filenames, loaded>>
dphiVars == <<phi1, phi2, dphi>>
sparseVars == <<dense, sparse, back>>

vars == <<pc, argVars, segVars, graphsVars, fileVars, dphiVars, sparseVars>>

\* a RangeIndex over the rows
WithRangeIndex(rows) ==
    [i \in 1..Len(rows) |->
        [index |-> i - 1, evtid |-> rows[i].evtid, layer |-> rows[i].layer,
         r |-> rows[i].r, phi |-> rows[i].phi, z |-> rows[i].z,
         barcode |-> rows[i].barcode]]

Filenames == {<<"g0", ".npz">>, <<"g1", ".npz">>, <<"g0">>}
Paths == Filenames \cup {savez_target(f) : f \in Filenames}

NoSegments == /\ hits = <<>> /\ lp = 1 /\ seg_list = <<>> /\ z0_max = 0 /\ segments = <<>>
NoArgs == /\ layer_pairs = <<>> /\ phi_slope_max = 0 /\ z0_max_inner = 0 /\ z0_max_outer = 0
NoGraphs == /\ table = <<>> /\ max_events = <<>> /\ evtids = <<>> /\ ei = 1 /\ graphs = <<>>
NoFiles == /\ files = [p \in Paths |-> <<>>] /\ filenames = <<>> /\ loaded = <<>>
NoDphi == /\ phi1 = <<>> /\ phi2 = <<>> /\ dphi = <<>>
NoSparse == /\ dense = <<>> /\ sparse = <<>> /\ back = <<>>

----------------------------------------------------------------------------
(* calc_dphi on two Series of one length *)

InitDphi ==
    /\ pc = "calc_dphi"
    /\ \E n \in 0..MaxSeries :
          /\ phi1 \in [1..n -> (-PiUnits)..PiUnits]
          /\ phi2 \in [1..n -> (-PiUnits)..PiUnits]
    /\ dphi = <<>>
    /\ NoArgs /\ NoSegments /\ NoGraphs /\ NoFiles /\ NoSparse

CalcDphi ==
    /\ pc = "calc_dphi"
    /\ dphi' = calc_dphi(phi1, phi2)
    /\ pc' = "dphi_done"
    /\ UNCHANGED <<phi1, phi2, argVars, segVars, graphsVars, fileVars, sparseVars>>

NextDphi == CalcDphi

SpecDphi == InitDphi /\ [][NextDphi]_vars

----------------------------------------------------------------------------
(* make_sparse_graph and graph_from_sparse *)

\* the 0/1 matrix of shape (n, m) whose column e has its one nonzero in row col_row[e]
OnePerColumn(n, m, col_row) ==
    [rows |-> n, cols |-> m,
     at |-> [rc \in (0..(n - 1)) \X (0..(m - 1)) |-> IF col_row[rc[2]] = rc[1] THEN 1 ELSE 0]]

InitSparse ==
    /\ pc = "dense"
    /\ \E n \in 0..MaxNodes, m \in 0..MaxEdges :
          /\ n = 0 => m = 0
          /\ \E X \in [1..n -> {<<0>>, <<1>>}], y \in [1..m -> {0, 1}],
                ci \in [0..(m - 1) -> 0..(n - 1)], co \in [0..(m - 1) -> 0..(n - 1)] :
                dense = [X |-> X, Ri |-> OnePerColumn(n, m, ci),
                         Ro |-> OnePerColumn(n, m, co), y |-> y]
    /\ sparse = <<>>
    /\ back = <<>>
    /\ NoArgs /\ NoSegments /\ NoGraphs /\ NoFiles /\ NoDphi

MakeSparse ==
    /\ pc = "dense"
    /\ sparse' = make_sparse_graph(dense.X, dense.Ri, dense.Ro, dense.y)
    /\ pc' = "sparse"
    /\ UNCHANGED <<dense, back, argVars, segVars, graphsVars, fileVars, dphiVars>>

FromSparse ==
    /\ pc = "sparse"
    /\ back' = graph_from_sparse(sparse)
    /\ pc' = "back"
    /\ UNCHANGED <<dense, sparse, argVars, segVars, graphsVars, fileVars, dphiVars>>

NextSparse == MakeSparse \/ FromSparse

SpecSparse == InitSparse /\ [][NextSparse]_vars

----------------------------------------------------------------------------
(* construct_segments *)

SegRows == [evtid : 1..MaxEvt, layer : Layers, r : 1..MaxR,
            phi : (-PiUnits)..PiUnits, z : {0, MaxZ}, barcode : {0}]

InitSeg ==
    /\ pc = "segments_loop"
    /\ hits \in {WithRangeIndex(rows) : rows \in SeqsUpTo(SegRows, MaxHits)}
    /\ layer_pairs \in SeqsUpTo(LayerPairs, MaxPairs)
    /\ phi_slope_max \in 1..MaxThr
    /\ z0_max_inner \in 1..MaxThr
    /\ z0_max_outer \in 1..MaxThr
    /\ lp = 1
    /\ seg_list = <<>>
    /\ z0_max = 0
    /\ segments = <<>>
    /\ NoGraphs /\ NoFiles /\ NoDphi /\ NoSparse

SkipPair_break ==
    /\ pc = "segments_loop"
    /\ lp <= Len(layer_pairs)
    /\ ~(HasGroup(hits, layer_pairs[lp][1]) /\ HasGroup(hits, layer_pairs[lp][2]))
    /\ lp' = Len(layer_pairs) + 1
    /\ UNCHANGED <<pc, hits, seg_list, z0_max, segments,
                   argVars, graphsVars, fileVars, dphiVars, sparseVars>>

\* the try block raised KeyError: logged, continue
SkipPair ==
    /\ pc = "segments_loop"
    /\ lp <= Len(layer_pairs)
    /\ ~(HasGroup(hits, layer_pairs[lp][1]) /\ HasGroup(hits, layer_pairs[lp][2]))
    /\ lp' = lp + 1
    /\ UNCHANGED <<pc, hits, seg_list, z0_max, segments,
                   argVars, graphsVars, fileVars, dphiVars, sparseVars>>

\* one pass of the loop body
SelectPair ==
    /\ pc = "segments_loop"
    /\ lp <= Len(layer_pairs)
    /\ HasGroup(hits, layer_pairs[lp][1]) /\ HasGroup(hits, layer_pairs[lp][2])
    /\ LET layer1 == layer_pairs[lp][1]
           layer2 == layer_pairs[lp][2]
           hits1 == get_group(hits, layer1)
           hits2 == get_group(hits, layer2)
           z0m == z0_max_for(layer1, layer2, z0_max_inner, z0_max_outer)
       IN  /\ z0_max' = z0m
           /\ seg_list' = Append(seg_list, select_segments(hits1, hits2, phi_slope_max, z0m))
    /\ lp' = lp + 1
    /\ UNCHANGED <<pc, hits, segments,
                   argVars, graphsVars, fileVars, dphiVars, sparseVars>>

\* return pd.concat(segments); pd.concat raises ValueError on an empty list
ConcatSegments ==
    /\ pc = "segments_loop"
    /\ lp > Len(layer_pairs)
    /\ IF seg_list = <<>>
       THEN pc' = "raised" /\ segments' = segments
       ELSE pc' = "segments_done" /\ segments' = concat(seg_list)
    /\ UNCHANGED <<hits, lp, seg_list, z0_max,
                   argVars, graphsVars, fileVars, dphiVars, sparseVars>>

NextSeg == SkipPair \/ SelectPair \/ ConcatSegments

SpecSeg == InitSeg /\ [][NextSeg]_vars

----------------------------------------------------------------------------
(* construct_graphs, save_graphs, load_graphs *)

\* toy tracks: the hits of a particle share phi and z
GraphRows ==
    {[evtid |-> e, layer |-> l, r |-> r, phi |-> b - 1, z |-> 1 - b, barcode |-> b] :
        e \in 1..MaxEvt, l \in {7, 8}, r \in 1..MaxR, b \in 1..MaxParticles}

GraphPairLists == {<<<<7, 8>>>>, <<<<7, 8>>, <<8, 7>>>>, <<<<8, 8>>, <<7, 8>>>>}

InitGraphs ==
    /\ pc = "construct_graphs"
    /\ table \in {WithRangeIndex(rows) : rows \in SeqsUpTo(GraphRows, MaxTableRows)}
    /\ max_events \in {<<>>} \cup {<<n>> : n \in 0..MaxEvt}
    /\ layer_pairs \in GraphPairLists
    /\ phi_slope_max \in 1..MaxThr
    /\ z0_max_inner = 1
    /\ z0_max_outer = MaxThr
    /\ evtids = <<>>
    /\ ei = 1
    /\ graphs = <<>>
    /\ NoSegments /\ NoFiles /\ NoDphi /\ NoSparse

\* construct_graphs up to its loop
EnterGraphs ==
    /\ pc = "construct_graphs"
    /\ evtids' = selected_evtids(table, max_events)
    /\ ei' = 1
    /\ graphs' = <<>>
    /\ pc' = "graphs_loop"
    /\ UNCHANGED <<table, max_events, argVars, segVars, fileVars, dphiVars, sparseVars>>

\* the loop takes the next event and calls construct_graph, which calls construct_segments
NextEvent ==
    /\ pc = "graphs_loop"
    /\ ei <= Len(evtids)
    /\ hits' = get_event(table, evtids[ei])
    /\ lp' = 1
    /\ seg_list' = <<>>
    /\ pc' = "segments_loop"
    /\ UNCHANGED <<z0_max, segments, argVars, graphsVars, fileVars, dphiVars, sparseVars>>

\* construct_graph from the segments on, and graphs.append(graph)
BuildGraph ==
    /\ pc = "segments_done"
    /\ graphs' = Append(graphs, construct_graph(hits, segments))
    /\ ei' = ei + 1
    /\ pc' = "graphs_loop"
    /\ UNCHANGED <<table, max_events, evtids, argVars, segVars, fileVars, dphiVars, sparseVars>>

\* return graphs
ReturnGraphs ==
    /\ pc = "graphs_loop"
    /\ ei > Len(evtids)
    /\ pc' = "graphs_done"
    /\ UNCHANGED <<argVars, segVars, graphsVars, fileVars, dphiVars, sparseVars>>

SaveGraphs ==
    /\ pc = "graphs_done"
    /\ \E names \in SeqsUpTo(Filenames, MaxFiles) :
          /\ filenames' = names
          /\ files' = save_graphs(files, graphs, names)
    /\ pc' = "saved"
    /\ UNCHANGED <<loaded, argVars, segVars, graphsVars, dphiVars, sparseVars>>

\* load_graphs(filenames, graph_type=SparseGraph); np.load raises on a missing file
LoadGraphs ==
    /\ pc = "saved"
    /\ IF \A k \in 1..Len(filenames) : can_load(files, filenames[k])
       THEN pc' = "loaded" /\ loaded' = load_graphs(files, filenames)
       ELSE pc' = "load_raised" /\ loaded' = loaded
    /\ UNCHANGED <<files, filenames, argVars, segVars, graphsVars, dphiVars, sparseVars>>

NextGraphs ==
    \/ EnterGraphs \/ NextEvent \/ SkipPair \/ SelectPair \/ ConcatSegments
    \/ BuildGraph \/ ReturnGraphs \/ SaveGraphs \/ LoadGraphs

SpecGraphs == InitGraphs /\ [][NextGraphs]_vars

----------------------------------------------------------------------------
(* Claims about construct_segments, checked under SpecSeg *)

Range(s) == {s[i] : i \in 1..Len(s)}

\* the listed layer pairs that have rows on both layers, in list order
Kept(pairs) ==
    SelectSeq(pairs, LAMBDA p : \E i, j \in 1..Len(hits) :
                                    hits[i].layer = p[1] /\ hits[j].layer = p[2])

Processed == SubSeq(layer_pairs, 1, lp - 1)

\* the ordered hit pairs, by label, that pass the cuts under some listed layer pair;
\* a pair with dr = 0 has no finite slope and passes no cut
QualifyingPairs ==
    LET n == Len(hits)
        ok(h1, h2, layer1, layer2) ==
            LET dphi_12 == calc_dphi(<<h1.phi>>, <<h2.phi>>)[1]
                dr == h2.r - h1.r
                dz == h2.z - h1.z
                z0_bound == IF layer1 >= 8 \/ layer2 >= 8 THEN z0_max_outer
                                                         ELSE z0_max_inner
            IN  /\ h1.layer = layer1
                /\ h2.layer = layer2
                /\ h1.evtid = h2.evtid
                /\ dr # 0
                /\ Abs(dphi_12) < phi_slope_max * Abs(dr)
                /\ Abs(h1.z * dr - h1.r * dz) < z0_bound * Abs(dr)
    IN  {<<hits[p[1]].index, hits[p[2]].index>> :
            p \in {q \in (1..n) \X (1..n) :
                      \E k \in 1..Len(layer_pairs) :
                          ok(hits[q[1]], hits[q[2]], layer_pairs[k][1], layer_pairs[k][2])}}

\* C1: the segments construct_segments returns are exactly the ordered hit pairs
\* (h1, h2) with h1 on layer1 and h2 on layer2 of some listed pair, equal evtid,
\* |dphi/dr| < phi_slope_max and |z_1 - r_1*dz/dr| < z0_max, both strict; when it
\* raises instead of returning, no pair qualifies.
C1_SegmentsAreQualifyingPairs ==
    /\ pc = "segments_done" => Range(segments) = QualifyingPairs
    /\ pc = "raised" => QualifyingPairs = {}

\* a call that returned a pair across the +-pi seam and rejected another pair of a
\* listed layer pair within one event
C1_Witness ==
    /\ pc = "segments_done"
    /\ \E i, j \in 1..Len(hits) :
          /\ <<hits[i].layer, hits[j].layer>> \in Range(layer_pairs)
          /\ hits[i].evtid = hits[j].evtid
          /\ <<hits[i].index, hits[j].index>> \notin Range(segments)
    /\ \E i, j \in 1..Len(hits) :
          /\ <<hits[i].index, hits[j].index>> \in Range(segments)
          /\ Abs(hits[j].phi - hits[i].phi) > PiUnits

\* C8: the z0 bound of a layer pair is z0_max_outer when layer1 >= 8 or layer2 >= 8
\* and z0_max_inner otherwise, and every pair is selected with the one phi_slope_max:
\* the local z0_max holds the bound of the last pair selected, and each frame of the
\* list is the selection under that pair's bound.
C8_Z0BoundByLayer ==
    pc = "segments_loop" =>
        LET kept == Kept(Processed)
            bound(p) == IF p[1] >= 8 \/ p[2] >= 8 THEN z0_max_outer ELSE z0_max_inner
        IN  /\ Len(seg_list) = Len(kept)
            /\ kept # <<>> => z0_max = bound(kept[Len(kept)])
            /\ \A m \in 1..Len(kept) :
                  seg_list[m] = select_segments(get_group(hits, kept[m][1]),
                                                get_group(hits, kept[m][2]),
                                                phi_slope_max, bound(kept[m]))

\* the loop has selected a pair with only layer2 >= 8, under an outer bound that
\* admits a pair the inner bound would not
C8_Witness ==
    /\ pc = "segments_loop"
    /\ lp > 1
    /\ layer_pairs[lp - 1] = <<7, 8>>
    /\ Len(seg_list) >= 1
    /\ z0_max = z0_max_outer
    /\ z0_max_outer > z0_max_inner
    /\ seg_list[Len(seg_list)] #
          select_segments(get_group(hits, 7), get_group(hits, 8), phi_slope_max, z0_max_inner)

\* C9: a layer pair without rows on layer1 or on layer2 is skipped: it adds no frame
\* and raises nothing, and the outcome is that of the list without the skipped pairs,
\* in list order.
C9_SkippedPairsAreAbsent ==
    LET kept == Kept(layer_pairs)
        frames == [m \in 1..Len(kept) |->
                      select_segments(get_group(hits, kept[m][1]),
                                      get_group(hits, kept[m][2]),
                                      phi_slope_max,
                                      z0_max_for(kept[m][1], kept[m][2],
                                                 z0_max_inner, z0_max_outer))]
    IN  /\ pc = "segments_loop" => Len(seg_list) = Len(Kept(Processed))
        /\ pc = "segments_done" => kept # <<>> /\ segments = concat(frames)
        /\ pc = "raised" => kept = <<>>

\* a call that skipped its first pair and returned the segments of its second
C9_Witness ==
    /\ pc = "segments_done"
    /\ Len(layer_pairs) = 2
    /\ Len(Kept(layer_pairs)) = 1
    /\ Kept(layer_pairs)[1] = layer_pairs[2]
    /\ segments # <<>>

----------------------------------------------------------------------------
(* Claims about construct_graph and construct_graphs, checked under SpecGraphs *)

\* construct_graph has returned, and hits and segments are still those of its call
GraphBuilt ==
    /\ graphs # <<>>
    /\ pc \in {"graphs_loop", "graphs_done", "saved", "loaded", "load_raised"}

LastGraph == graphs[Len(graphs)]

\* the row of hits with the label
RowOf(label) == CHOOSE h \in Range(hits) : h.index = label

\* its position in hits, counted from 0
PositionOf(label) == (CHOOSE i \in 1..Len(hits) : hits[i].index = label) - 1

\* C2: y[e] is 1 if the start hit and the end hit of edge e have the same barcode and
\* 0 otherwise, with one entry per selected segment, in segment order.
C2_LabelIsSharedBarcode ==
    GraphBuilt =>
        /\ Len(LastGraph.y) = Len(segments)
        /\ \A e \in 1..Len(segments) :
              /\ RowOf(segments[e][1]).barcode = RowOf(segments[e][2]).barcode
                    => LastGraph.y[e] = 1
              /\ RowOf(segments[e][1]).barcode # RowOf(segments[e][2]).barcode
                    => LastGraph.y[e] = 0

\* a graph with a true edge and a false edge
C2_Witness ==
    /\ GraphBuilt
    /\ \E e \in 1..Len(LastGraph.y) : LastGraph.y[e] = 1
    /\ \E e \in 1..Len(LastGraph.y) : LastGraph.y[e] = 0

\* C4: every edge index 0..n_edges-1 occurs exactly once in Ri_cols and exactly once
\* in Ro_cols; the row paired with it in Ro is the position in the event's table of
\* the segment's start hit, the row paired with it in Ri that of its end hit; the
\* start hit is on layer1 and the end hit on layer2 of a listed layer pair.
C4_OneStartOneEndPerEdge ==
    GraphBuilt =>
        LET g == LastGraph
            n_edges == Len(segments)
            at(cols, e) == {k \in 1..Len(cols) : cols[k] = e}
        IN  /\ Len(g.Ri_cols) = n_edges /\ Len(g.Ri_rows) = n_edges
            /\ Len(g.Ro_cols) = n_edges /\ Len(g.Ro_rows) = n_edges
            /\ \A e \in 0..(n_edges - 1) :
                  /\ Cardinality(at(g.Ri_cols, e)) = 1
                  /\ Cardinality(at(g.Ro_cols, e)) = 1
                  /\ \A k \in at(g.Ri_cols, e) :
                        g.Ri_rows[k] = PositionOf(segments[e + 1][2])
                  /\ \A k \in at(g.Ro_cols, e) :
                        g.Ro_rows[k] = PositionOf(segments[e + 1][1])
                  /\ <<RowOf(segments[e + 1][1]).layer, RowOf(segments[e + 1][2]).layer>>
                        \in Range(layer_pairs)

\* a graph of two edges or more over hits whose labels are not their positions
C4_Witness ==
    /\ GraphBuilt
    /\ Len(segments) >= 2
    /\ \E e \in 1..Len(segments) : PositionOf(segments[e][1]) # segments[e][1]
    /\ LastGraph.Ri_cols # arange(Len(segments))

C10_TensorShapes ==
    GraphBuilt =>
        LET g == LastGraph
            n_hits == Len(hits)
            equals(q, a, b) == q.den # 0 /\ q.num * b = a * q.den
        IN  /\ Len(g.X) = n_hits
            /\ \A i \in 1..n_hits :
                  /\ Len(g.X[i]) = 3
                  /\ equals(g.X[i][1], hits[i].r, 1000)
                  /\ equals(g.X[i][2], hits[i].phi, PiUnits)
                  /\ equals(g.X[i][3], hits[i].z, 1000)
            /\ \A k \in 1..Len(g.Ri_rows) : g.Ri_rows[k] \in 0..(n_hits - 1)
            /\ \A k \in 1..Len(g.Ro_rows) : g.Ro_rows[k] \in 0..(n_hits - 1)
            /\ Len(g.y) = Len(segments)
            /\ Len(g.Ri_cols) = Len(segments)
            /\ Len(g.Ro_cols) = Len(segments)

\* a graph with an edge and with a hit on no segment
C10_Witness ==
    /\ GraphBuilt
    /\ segments # <<>>
    /\ \E i \in 1..Len(hits) :
          /\ hits[i].phi # 0
          /\ \A e \in 1..Len(segments) :
                hits[i].index # segments[e][1] /\ hits[i].index # segments[e][2]

\* C3: save_graphs(graphs, filenames) followed by load_graphs(filenames, SparseGraph),
\* with one filename per graph, returns the graphs, field by field and in order.
C3_SaveLoadRoundTrip ==
    (pc \in {"loaded", "load_raised"} /\ Len(filenames) = Len(graphs)) =>
        /\ pc = "loaded"
        /\ Len(loaded) = Len(graphs)
        /\ \A k \in 1..Len(graphs) :
              /\ loaded[k].X = graphs[k].X
              /\ loaded[k].Ri_rows = graphs[k].Ri_rows
              /\ loaded[k].Ri_cols = graphs[k].Ri_cols
              /\ loaded[k].Ro_rows = graphs[k].Ro_rows
              /\ loaded[k].Ro_cols = graphs[k].Ro_cols
              /\ loaded[k].y = graphs[k].y

----------------------------------------------------------------------------
(* Claim about calc_dphi, checked under SpecDphi *)

\* C6: for phi1, phi2 in [-pi, pi] every element of calc_dphi(phi1, phi2) lies in
\* [-pi, pi] and differs from phi2 - phi1 by 0, +2*pi or -2*pi.
C6_DphiInRange ==
    pc = "dphi_done" =>
        /\ Len(dphi) = Len(phi1)
        /\ \A i \in 1..Len(dphi) :
              /\ -PiUnits <= dphi[i] /\ dphi[i] <= PiUnits
              /\ dphi[i] - (phi2[i] - phi1[i]) \in {0, 2 * PiUnits, -(2 * PiUnits)}

\* a Series with an element wrapped down and an element wrapped up
C6_Witness ==
    /\ pc = "dphi_done"
    /\ \E i \in 1..Len(dphi) : dphi[i] = phi2[i] - phi1[i] - 2 * PiUnits
    /\ \E i \in 1..Len(dphi) : dphi[i] = phi2[i] - phi1[i] + 2 * PiUnits

----------------------------------------------------------------------------
(* Claim about the sparse form, checked under SpecSparse *)

\* C7: for 0/1 matrices Ri, Ro with exactly one nonzero per edge column,
\* graph_from_sparse(make_sparse_graph(X, Ri, Ro, y)) has the same X and y, and Ri and
\* Ro of the same shape and equal entry by entry.
C7_SparseDenseRoundTrip ==
    pc = "back" =>
        /\ back.X = dense.X
        /\ back.y = dense.y
        /\ back.Ri.rows = dense.Ri.rows /\ back.Ri.cols = dense.Ri.cols
        /\ back.Ro.rows = dense.Ro.rows /\ back.Ro.cols = dense.Ro.cols
        /\ \A r \in 0..(dense.Ri.rows - 1), c \in 0..(dense.Ri.cols - 1) :
              /\ back.Ri.at[<<r, c>>] = dense.Ri.at[<<r, c>>]
              /\ back.Ro.at[<<r, c>>] = dense.Ro.at[<<r, c>>]

\* a graph of two edges that end in one node and start in two, the later edge in the
\* earlier row
C7_Witness ==
    /\ pc = "back"
    /\ dense.Ri.cols = 2
    /\ \E r \in 0..(dense.Ri.rows - 1) : dense.Ri.at[<<r, 0>>] = 1 /\ dense.Ri.at[<<r, 1>>] = 1
    /\ \E r, s \in 0..(dense.Ro.rows - 1) :
          r < s /\ dense.Ro.at[<<r, 1>>] = 1 /\ dense.Ro.at[<<s, 0>>] = 1

----------------------------------------------------------------------------
(* Claim about hits of equal radius, checked under SpecSeg *)

\* C11: a pair of hits with equal radius (dr = 0) is never selected, whatever the
\* thresholds: no frame of the list and no returned segment joins two hits of one r.
C11_EqualRadiusNeverSelected ==
    LET apart(seg) == RowOf(seg[1]).r # RowOf(seg[2]).r
    IN  /\ \A m \in 1..Len(seg_list) : \A k \in 1..Len(seg_list[m]) : apart(seg_list[m][k])
        /\ \A e \in 1..Len(segments) : apart(segments[e])

\* select_segments has met, under the largest thresholds, a hit paired with itself
\* (dphi = 0, dz = 0: undefined slope and z0) and two hits of one event and one
\* radius at different angles (infinite slope), on a listed layer pair
C11_Witness ==
    /\ pc = "segments_done"
    /\ phi_slope_max = MaxThr /\ z0_max_inner = MaxThr /\ z0_max_outer = MaxThr
    /\ \E i, j \in 1..Len(hits) :
          /\ i # j
          /\ <<hits[i].layer, hits[j].layer>> \in Range(layer_pairs)
          /\ <<hits[i].layer, hits[i].layer>> \in Range(layer_pairs)
          /\ hits[i].evtid = hits[j].evtid
          /\ hits[i].r = hits[j].r
          /\ hits[i].phi # hits[j].phi
          /\ <<hits[i].index, hits[j].index>> \notin Range(segments)
          /\ <<hits[i].index, hits[i].index>> \notin Range(segments)

====
